---- MODULE Spec2Model ----
(***************************************************************************)
(* FinanceGuard (src/app.py): a wallet registry and a transaction ledger   *)
(* kept in two MongoDB collections, the form handlers that write them and  *)
(* the dashboard / report computations that read them.                     *)
(*                                                                         *)
(* Wallet identifiers and transaction identifiers (ObjectIds) are modelled *)
(* as positive integers handed out in increasing order and never reused.   *)
(* Amounts are whole currency units (floats that hold integers add         *)
(* exactly).  created_at is a day number: the forms store the chosen date  *)
(* at midnight.  A handler's st.success / st.error text is not kept as     *)
(* state: it is given by a result operator of the handler's inputs and the *)
(* state the handler starts in.                                            *)
(***************************************************************************)
EXTENDS Integers, Sequences, FiniteSets, TLC

\* ------------------------------------------------------------------ bounds

\* At most this many transaction documents are ever inserted in a run of the
\* application (Spec).
MaxTrx == 2

\* At most this many transactions are entered in a run of SpecReport.
MaxRows == 3

\* At most this many documents are inserted on top of the full ledger in a
\* run of SpecLarge.
MaxNew == 2

\* ------------------------------------------------------- program constants

\* load_transactions_df: trx_col.find().sort("created_at", -1).limit(10000)
LoadLimit == 10000

\* "target_id": None
NoneId == 0

\* ------------------------------------------------------------ input domains

\* Text typed into "Nama Dompet": sequences of characters.
Names ==
    { <<>>, <<" ">>, <<"a">>, <<" ", "a">>, <<"a", " ">>, <<"b">> }

\* Dates offered by st.date_input.
Days == {1, 2}

\* Values of st.number_input(min_value=0.0).
Amounts == {0, 30}

\* Amounts entered in SpecReport.
ReportAmounts == {30, 50, 100}

\* The four stored transaction types (the edit form's "Jenis" choices).
TrxTypes == {"income", "expense", "transfer_in", "transfer_out"}

\* ------------------------------------------------------------------- state

VARIABLES
    wallets,    \* wallets_col: sequence of names, index = the wallet's _id
    trx,        \* trx_col: function _id -> document
    next_id     \* the next fresh transaction _id

vars == <<wallets, trx, next_id>>

\* ----------------------------------------------------------------- helpers

\* str.strip(): drop leading and trailing blanks.
RECURSIVE Strip(_)
Strip(s) ==
    IF s = <<>> THEN <<>>
    ELSE IF Head(s) = " " THEN Strip(Tail(s))
    ELSE IF s[Len(s)] = " " THEN Strip(SubSeq(s, 1, Len(s) - 1))
    ELSE s

\* load_wallets(): {str(_id): name}.
load_wallets == [w \in DOMAIN wallets |-> wallets[w]]

\* wallet_keys = list(wallet_map.keys()): the wallets a form can select.
wallet_keys == DOMAIN load_wallets

\* A lookup by the name as typed, for comparison: it misses a stored name
\* that differs from the typed one by surrounding blanks.
find_one_wallet_unstripped(name) == \E w \in DOMAIN wallets : wallets[w] = name

\* wallets_col.find_one({"name": name.strip()})
find_one_wallet(name) == \E w \in DOMAIN wallets : wallets[w] = Strip(name)

\* insert_transaction(doc): trx_col.insert_one(doc) under a fresh _id.
insert_transaction(t, id, doc) ==
    [i \in DOMAIN t \cup {id} |-> IF i = id THEN doc ELSE t[i]]

\* update_transaction(trx_id, patch): update_one({"_id": id}, {"$set": patch}).
\* A filter that matches no document changes nothing.
update_transaction(t, id, patch) ==
    [i \in DOMAIN t |->
        IF i = id
        THEN [f \in DOMAIN t[i] |->
                 IF f \in DOMAIN patch THEN patch[f] ELSE t[i][f]]
        ELSE t[i]]

\* Whether update_transaction(trx_id, patch) raises: update_one reports a
\* filter that matches nothing in its result object, which the code drops.
update_transaction_raises(t, id) == FALSE

\* A cascading delete, for comparison: it also removes every document that
\* shares wallets, amount and date with the deleted one (the other half of a
\* transfer).
delete_transaction_cascade(t, id) ==
    [i \in {j \in DOMAIN t :
               \/ id \notin DOMAIN t
               \/ /\ j # id
                  /\ ~(/\ t[j].source_id = t[id].source_id
                       /\ t[j].target_id = t[id].target_id
                       /\ t[j].amount = t[id].amount
                       /\ t[j].created_at = t[id].created_at)}
        |-> t[i]]

\* delete_transaction(trx_id): delete_one({"_id": id}).
delete_transaction(t, id) == [i \in DOMAIN t \ {id} |-> t[i]]

\* A collection holding no document.
EmptyLedger == [i \in {} |-> NoneId]

\* The documents form_trx builds.
Doc(type, src, tgt, amount, desc, day) ==
    [type |-> type, source_id |-> src, target_id |-> tgt,
     amount |-> amount, description |-> desc, created_at |-> day]

\* An income document that names its wallet as target only, for comparison.
income_doc_target_only(w_to, amount, desc, day) ==
    Doc("income", NoneId, w_to, amount, desc, day)

income_doc(w_to, amount, desc, day) ==
    Doc("income", w_to, NoneId, amount, desc, day)

expense_doc(w_from, amount, desc, day) ==
    Doc("expense", w_from, NoneId, amount, desc, day)

transfer_out_doc(w_from, w_to, amount, desc, day) ==
    Doc("transfer_out", w_from, w_to, amount, desc, day)

transfer_in_doc(w_from, w_to, amount, desc, day) ==
    Doc("transfer_in", w_from, w_to, amount, desc, day)

\* ------------------------------------------------------------ reading side

\* The k members of ids that a scan in ascending (rev = FALSE) or descending
\* (rev = TRUE) _id order meets first.
RECURSIVE KthSmallest(_, _, _, _)
KthSmallest(ids, k, lo, hi) ==
    IF lo >= hi THEN lo
    ELSE LET m == (lo + hi) \div 2
             c == Cardinality({j \in ids : j <= m})
         IN  IF c >= k THEN KthSmallest(ids, k, lo, m)
             ELSE KthSmallest(ids, k, m + 1, hi)

RECURSIVE KthLargest(_, _, _, _)
KthLargest(ids, k, lo, hi) ==
    IF lo >= hi THEN lo
    ELSE LET m == (lo + hi + 1) \div 2
             c == Cardinality({j \in ids : j >= m})
         IN  IF c >= k THEN KthLargest(ids, k, m, hi)
             ELSE KthLargest(ids, k, lo, m - 1)

FirstK(ids, k, rev) ==
    IF k <= 0 THEN {}
    ELSE IF k >= Cardinality(ids) THEN ids
    ELSE IF rev
    THEN LET th == KthLargest(ids, k, 1, next_id - 1)
         IN  {j \in ids : j >= th}
    ELSE LET th == KthSmallest(ids, k, 1, next_id - 1)
         IN  {j \in ids : j <= th}

\* The _ids that find().sort("created_at", -1).limit(LoadLimit) returns from
\* collection t.  Documents of equal created_at come in an order the store
\* does not fix: rev chooses between ascending and descending _id.
loaded_ids(t, rev) ==
    IF Cardinality(DOMAIN t) <= LoadLimit THEN DOMAIN t
    ELSE LET days   == {t[i].created_at : i \in DOMAIN t}
             newer(d) == {i \in DOMAIN t : t[i].created_at > d}
             on(d)  == {i \in DOMAIN t : t[i].created_at = d}
             cut    == CHOOSE d \in days :
                          /\ Cardinality(newer(d)) < LoadLimit
                          /\ Cardinality(newer(d)) + Cardinality(on(d))
                                >= LoadLimit
         IN  newer(cut) \cup
             FirstK(on(cut), LoadLimit - Cardinality(newer(cut)), rev)

\* load_transactions_df() on collection t: the loaded documents, keyed by _id.
load_transactions_df(t, rev) == [i \in loaded_ids(t, rev) |-> t[i]]

\* Every frame one call of load_transactions_df() may return from t.
FramesOf(t) == {load_transactions_df(t, rev) : rev \in BOOLEAN}

\* Every frame a call may return in the current state.
Frames == FramesOf(trx)

\* Series.sum() of a numeric column given as a function on lo..hi.
RECURSIVE SumRange(_, _, _)
SumRange(f, lo, hi) ==
    IF lo > hi THEN 0
    ELSE IF lo = hi THEN f[lo]
    ELSE LET m == (lo + hi) \div 2
         IN  SumRange(f, lo, m) + SumRange(f, m + 1, hi)

\* df.loc[mask, "amount"].sum()
amount_sum(df, mask) ==
    SumRange([i \in 1..(next_id - 1) |->
                 IF i \in mask THEN df[i].amount ELSE 0], 1, next_id - 1)

\* Dashboard: saldo of wallet wid computed from frame df.
Saldo(df, wid) ==
    LET out_mask == {i \in DOMAIN df : df[i].source_id = wid}
        in_mask  == {i \in DOMAIN df : df[i].target_id = wid}
        of(ty)   == {i \in DOMAIN df : df[i].type = ty}
        income   == amount_sum(df, out_mask \cap of("income"))
        expense  == amount_sum(df, out_mask \cap of("expense"))
        t_in     == amount_sum(df, in_mask \cap of("transfer_in"))
        t_out    == amount_sum(df, out_mask \cap of("transfer_out"))
    IN  (income + t_in) - (expense + t_out)

\* Dashboard: summary_df["saldo"].sum() over the wallets of wallet_map.
TotalAll(df) ==
    SumRange([w \in 1..Len(wallets) |-> Saldo(df, w)], 1, Len(wallets))

\* The keys of a groupby, ascending.
RECURSIVE SortedKeys(_)
SortedKeys(keys) ==
    IF keys = {} THEN <<>>
    ELSE LET k == CHOOSE x \in keys : \A y \in keys : x <= y
         IN  <<k>> \o SortedKeys(keys \ {k})

\* A grouping that keeps its keys in descending order, for comparison.
groupby_date_sum_desc(df) ==
    LET keys == SortedKeys({df[i].created_at : i \in DOMAIN df})
        m    == Len(keys)
    IN  [n \in 1..m |->
            [date_only |-> keys[m + 1 - n],
             amount |-> amount_sum(df,
                            {i \in DOMAIN df :
                                df[i].created_at = keys[m + 1 - n]})]]

\* df.groupby("date_only", as_index=False)["amount"].sum()
groupby_date_sum(df) ==
    LET keys == SortedKeys({df[i].created_at : i \in DOMAIN df})
    IN  [n \in 1..Len(keys) |->
            [date_only |-> keys[n],
             amount |-> amount_sum(df,
                            {i \in DOMAIN df : df[i].created_at = keys[n]})]]

\* Dashboard: the daily expense trend.
DashboardDaily(df_all) ==
    LET df_exp == [i \in {j \in DOMAIN df_all : df_all[j].type = "expense"}
                      |-> df_all[i]]
    IN  groupby_date_sum(df_exp)

\* Laporan, "Harian": sel_wallet is a wallet _id or NoneId for "Semua";
\* sel_kind is "Pengeluaran", "Pemasukan" or "Semua".
LaporanFilter(df, sel_wallet, sel_kind) ==
    [i \in {j \in DOMAIN df :
              /\ sel_wallet # NoneId =>
                    (df[j].source_id = sel_wallet \/ df[j].target_id = sel_wallet)
              /\ sel_kind = "Pengeluaran" => df[j].type = "expense"
              /\ sel_kind = "Pemasukan" => df[j].type = "income"}
        |-> df[i]]

LaporanHarian(df, sel_wallet, sel_kind) ==
    groupby_date_sum(LaporanFilter(df, sel_wallet, sel_kind))

\* ------------------------------------------------------------------ actions

Init ==
    /\ wallets = <<>>
    /\ trx = EmptyLedger
    /\ next_id = 1

\* upsert_wallet(name): the (ok, message) pair it returns.
upsert_wallet_result(name) ==
    IF Strip(name) = <<>> THEN <<FALSE, "Nama dompet kosong">>
    ELSE IF find_one_wallet(name) THEN <<FALSE, "Nama dompet sudah ada">>
    ELSE <<TRUE, "Dompet ditambahkan">>

\* upsert_wallet(name): its effect on wallets_col.
upsert_wallet(name) ==
    IF upsert_wallet_result(name)[1]
    THEN wallets' = Append(wallets, Strip(name))
    ELSE UNCHANGED wallets

\* form_add_wallet: "Tambah Dompet".
AddWallet(new_name) ==
    /\ upsert_wallet(new_name)
    /\ UNCHANGED <<trx, next_id>>

\* A validation without the same-wallet test, for comparison.
form_trx_error_amount_only(ttype, w_from, w_to, amount) ==
    IF amount <= 0 THEN "Nominal harus lebih besar dari 0" ELSE ""

\* form_trx: the st.error text that ends the submit, "" when it goes on to
\* write.  ttype is "income", "expense" or "transfer".
form_trx_error(ttype, w_from, w_to, amount) ==
    IF amount <= 0 THEN "Nominal harus lebih besar dari 0"
    ELSE IF ttype = "transfer" /\ w_from = w_to
    THEN "Dompet asal dan tujuan tidak boleh sama"
    ELSE ""

\* form_trx, ttype = "income".  ok: whether the store accepts the insert; a
\* raising insert_one ends the script run with nothing written.
SubmitIncome(w_to, amount, desc, day, ok) ==
    /\ w_to \in wallet_keys
    /\ UNCHANGED wallets
    /\ IF form_trx_error("income", w_to, w_to, amount) # "" \/ ~ok
       THEN UNCHANGED <<trx, next_id>>
       ELSE /\ trx' = insert_transaction(trx, next_id,
                          income_doc(w_to, amount, desc, day))
            /\ next_id' = next_id + 1

\* form_trx, ttype = "expense".
SubmitExpense(w_from, amount, desc, day, ok) ==
    /\ w_from \in wallet_keys
    /\ UNCHANGED wallets
    /\ IF form_trx_error("expense", w_from, w_from, amount) # "" \/ ~ok
       THEN UNCHANGED <<trx, next_id>>
       ELSE /\ trx' = insert_transaction(trx, next_id,
                          expense_doc(w_from, amount, desc, day))
            /\ next_id' = next_id + 1

\* A transfer that writes its transfer_in document first, for comparison.
transfer_inserts_in_first(w_from, w_to, amount, desc, day, fail_at) ==
    LET out == transfer_out_doc(w_from, w_to, amount, desc, day)
        in  == transfer_in_doc(w_from, w_to, amount, desc, day)
    IN  IF fail_at = 1
        THEN UNCHANGED <<trx, next_id>>
        ELSE IF fail_at = 2
        THEN /\ trx' = insert_transaction(trx, next_id, in)
             /\ next_id' = next_id + 1
        ELSE /\ trx' = insert_transaction(
                           insert_transaction(trx, next_id, in),
                           next_id + 1, out)
             /\ next_id' = next_id + 2

\* The two inserts of a transfer.  fail_at = 1 or 2: the store raises at
\* that insert and the script run ends there; fail_at = 0: both succeed.
transfer_inserts(w_from, w_to, amount, desc, day, fail_at) ==
    LET out == transfer_out_doc(w_from, w_to, amount, desc, day)
        in  == transfer_in_doc(w_from, w_to, amount, desc, day)
    IN  IF fail_at = 1
        THEN UNCHANGED <<trx, next_id>>
        ELSE IF fail_at = 2
        THEN /\ trx' = insert_transaction(trx, next_id, out)
             /\ next_id' = next_id + 1
        ELSE /\ trx' = insert_transaction(
                           insert_transaction(trx, next_id, out),
                           next_id + 1, in)
             /\ next_id' = next_id + 2

\* form_trx, ttype = "transfer".
SubmitTransfer(w_from, w_to, amount, desc, day, fail_at) ==
    /\ w_from \in wallet_keys
    /\ w_to \in wallet_keys
    /\ UNCHANGED wallets
    /\ IF form_trx_error("transfer", w_from, w_to, amount) # ""
       THEN UNCHANGED <<trx, next_id>>
       ELSE transfer_inserts(w_from, w_to, amount, desc, day, fail_at)

\* Riwayat: the transactions the selectbox "Pilih ID transaksi" can offer.
selectable_ids == UNION {loaded_ids(trx, rev) : rev \in BOOLEAN}

\* Riwayat: "Hapus transaksi ini" on the selected transaction.  A raising
\* delete_one is caught ("Gagal menghapus") with nothing deleted.
DeleteClick(sel_id, ok) ==
    /\ sel_id \in selectable_ids
    /\ UNCHANGED <<wallets, next_id>>
    /\ IF ok
       THEN trx' = delete_transaction(trx, sel_id)
       ELSE UNCHANGED trx

\* Riwayat: the patch form_edit_trx builds from its inputs.
edit_patch(new_amount, new_desc, new_type, new_src, new_tgt) ==
    [amount |-> new_amount, description |-> new_desc, type |-> new_type,
     source_id |-> new_src, target_id |-> new_tgt]

\* Riwayat: "Simpan Perubahan" on the selected transaction.  A raising
\* update_one is caught ("Gagal update") with nothing changed.
EditSubmit(sel_id, new_amount, new_desc, new_type, new_src, new_tgt, ok) ==
    /\ sel_id \in selectable_ids
    /\ new_type \in TrxTypes
    /\ new_src \in wallet_keys
    /\ new_tgt \in {NoneId} \cup wallet_keys
    /\ UNCHANGED <<wallets, next_id>>
    /\ IF ok
       THEN trx' = update_transaction(trx, sel_id,
                       edit_patch(new_amount, new_desc, new_type,
                                  new_src, new_tgt))
       ELSE UNCHANGED trx

\* ------------------------------------------------------- the application

\* Whether n more documents fit the run's bound.
CanInsert(n) == next_id + n - 1 <= MaxTrx

\* One run of the script per step.  An edit that changes several fields
\* reaches the state that changing them one after another reaches, so the
\* edits enumerated change one field each; the last disjunct is an edit the
\* store refuses.
Next ==
    \/ \E name \in Names : AddWallet(name)
    \/ /\ CanInsert(1)
       /\ \E w \in wallet_keys, a \in Amounts, ok \in BOOLEAN :
             SubmitIncome(w, a, "", 1, ok)
    \/ /\ CanInsert(1)
       /\ \E w \in wallet_keys, a \in Amounts, ok \in BOOLEAN :
             SubmitExpense(w, a, "", 1, ok)
    \/ /\ CanInsert(2)
       /\ \E w1 \in wallet_keys, w2 \in wallet_keys, a \in Amounts,
             f \in {0, 1, 2} : SubmitTransfer(w1, w2, a, "", 1, f)
    \/ \E id \in DOMAIN trx, ok \in BOOLEAN : DeleteClick(id, ok)
    \/ \E id \in DOMAIN trx : \E a \in Amounts \ {trx[id].amount} :
          EditSubmit(id, a, trx[id].description, trx[id].type,
                     trx[id].source_id, trx[id].target_id, TRUE)
    \/ \E id \in DOMAIN trx : \E ty \in TrxTypes \ {trx[id].type} :
          EditSubmit(id, trx[id].amount, trx[id].description, ty,
                     trx[id].source_id, trx[id].target_id, TRUE)
    \/ \E id \in DOMAIN trx : \E s \in wallet_keys \ {trx[id].source_id} :
          EditSubmit(id, trx[id].amount, trx[id].description, trx[id].type,
                     s, trx[id].target_id, TRUE)
    \/ \E id \in DOMAIN trx :
       \E t \in ({NoneId} \cup wallet_keys) \ {trx[id].target_id} :
          EditSubmit(id, trx[id].amount, trx[id].description, trx[id].type,
                     trx[id].source_id, t, TRUE)
    \/ \E id \in DOMAIN trx :
          EditSubmit(id, trx[id].amount, trx[id].description, trx[id].type,
                     trx[id].source_id, trx[id].target_id, FALSE)

Spec == Init /\ [][Next]_vars

\* ------------------------------------------------- the entry forms alone

\* Runs of "Tambah Dompet" and "Transaksi" only: nothing is edited or deleted.
SubmitNext ==
    \/ \E name \in Names : AddWallet(name)
    \/ /\ CanInsert(1)
       /\ \E w \in wallet_keys, a \in Amounts, day \in Days, ok \in BOOLEAN :
             SubmitIncome(w, a, "", day, ok)
    \/ /\ CanInsert(1)
       /\ \E w \in wallet_keys, a \in Amounts, day \in Days, ok \in BOOLEAN :
             SubmitExpense(w, a, "", day, ok)
    \/ /\ CanInsert(2)
       /\ \E w1 \in wallet_keys, w2 \in wallet_keys, a \in Amounts,
             day \in Days, f \in {0, 1, 2} :
             SubmitTransfer(w1, w2, a, "", day, f)

SpecSubmit == Init /\ [][SubmitNext]_vars

\* ------------------------------------------------------------ the reports

\* Runs that enter income and expense rows for one wallet; the dashboard
\* trend and the Laporan "Harian" chart aggregate the resulting ledgers.
ReportNext ==
    \/ AddWallet(<<"a">>)
    \/ /\ next_id <= MaxRows
       /\ \E a \in ReportAmounts, day \in Days :
             SubmitIncome(1, a, "", day, TRUE)
    \/ /\ next_id <= MaxRows
       /\ \E a \in ReportAmounts, day \in Days :
             SubmitExpense(1, a, "", day, TRUE)

SpecReport == Init /\ [][ReportNext]_vars

\* --------------------------------------------------------- a full ledger

\* The state after three wallets were added and LoadLimit incomes of 30 were
\* entered for the first of them, all dated day 2.
InitLarge ==
    /\ wallets = << <<"a">>, <<"b">>, <<"c">> >>
    /\ trx = [i \in 1..LoadLimit |-> income_doc(1, 30, "", 2)]
    /\ next_id = LoadLimit + 1

\* Whether n more documents fit the run's bound.
CanInsertLarge(n) == next_id + n - 1 <= LoadLimit + MaxNew

\* Runs that go on entering transactions, every insert succeeding.
LargeNext ==
    \/ AddWallet(<<"a">>)
    \/ /\ CanInsertLarge(1)
       /\ \E w \in wallet_keys, day \in Days : SubmitIncome(w, 30, "", day, TRUE)
    \/ /\ CanInsertLarge(1)
       /\ \E w \in wallet_keys, day \in Days : SubmitExpense(w, 30, "", day, TRUE)
    \/ /\ CanInsertLarge(2)
       /\ \E w1 \in wallet_keys, w2 \in wallet_keys, day \in Days :
             SubmitTransfer(w1, w2, 30, "", day, 0)

SpecLarge == InitLarge /\ [][LargeNext]_vars

\* ================================================================= claims

\* Every amount a form can submit in the runs above.
AllAmounts == Amounts \cup ReportAmounts

\* The dashboard balance of wallet w, and the dashboard total, when the load
\* orders documents of equal created_at by rev.
Balance(rev, w) == Saldo(load_transactions_df(trx, rev), w)

Total(rev) == TotalAll(load_transactions_df(trx, rev))

\* Sum of the amounts of the documents of t whose _id is in ids, one document
\* at a time.
RECURSIVE SumOver(_, _)
SumOver(t, ids) ==
    IF ids = {} THEN 0
    ELSE LET i == CHOOSE j \in ids : TRUE
         IN  t[i].amount + SumOver(t, ids \ {i})

\* Sum of all income amounts minus sum of all expense amounts in the ledger.
LedgerNet ==
    amount_sum(trx, {i \in DOMAIN trx : trx[i].type = "income"})
    - amount_sum(trx, {i \in DOMAIN trx : trx[i].type = "expense"})

\* The ledger without its two newest documents.
BeforeLastTwo ==
    delete_transaction(delete_transaction(trx, next_id - 1), next_id - 2)

\* The two newest documents are the pair a successful transfer of x from a to
\* b on some day wrote, so the state was reached by that transfer from
\* BeforeLastTwo (documents are written in _id order, a transfer_in only as
\* the second insert of a transfer).
JustTransferred(a, b, x) ==
    /\ a # b
    /\ x > 0
    /\ next_id >= 3
    /\ {next_id - 2, next_id - 1} \subseteq DOMAIN trx
    /\ \E day \in Days :
          /\ trx[next_id - 2] = transfer_out_doc(a, b, x, "", day)
          /\ trx[next_id - 1] = transfer_in_doc(a, b, x, "", day)

\* The dashboard after the transfer against the dashboard before it.
TransferNeutral(a, b, x) ==
    \A df1 \in FramesOf(BeforeLastTwo), df2 \in Frames :
        /\ Saldo(df2, a) = Saldo(df1, a) - x
        /\ Saldo(df2, b) = Saldo(df1, b) + x
        /\ \A w \in wallet_keys \ {a, b} : Saldo(df2, w) = Saldo(df1, w)
        /\ TotalAll(df2) = TotalAll(df1)

\* C1 (as claimed): in any reachable ledger state a successful transfer of
\* x > 0 from wallet a to a distinct wallet b changes the dashboard balance of
\* a by -x and of b by +x, leaves every other wallet's balance unchanged and
\* leaves the total unchanged.
C1_TransferNeutrality ==
    \A a \in wallet_keys, b \in wallet_keys, x \in AllAmounts :
        JustTransferred(a, b, x) => TransferNeutral(a, b, x)

\* The same while the ledger holds at most LoadLimit documents after the
\* transfer (it holds under SpecSubmit).
TransferNeutralWithinLimit ==
    \A a \in wallet_keys, b \in wallet_keys, x \in AllAmounts :
        (JustTransferred(a, b, x) /\ Cardinality(DOMAIN trx) <= LoadLimit)
           => TransferNeutral(a, b, x)

\* C2 (as claimed): in every state reached by wallet additions and successful
\* income, expense and transfer submissions, the dashboard total equals the sum
\* of all income amounts minus the sum of all expense amounts in the ledger.
C2_BalanceConservation ==
    \A df \in Frames : TotalAll(df) = LedgerNet

\* No two wallets of the registry have the same name.
NoDuplicateNames ==
    \A v \in DOMAIN wallets, w \in DOMAIN wallets :
        wallets[v] = wallets[w] => v = w

\* C3: adding a wallet whose name equals an existing wallet's name returns the
\* duplicate-name failure and leaves the registry unchanged, and after any
\* sequence of additions no two wallets have the same name.
C3_WalletNameUnique ==
    [][/\ \A name \in Names :
             (\E w \in DOMAIN wallets : wallets[w] = name) =>
                /\ upsert_wallet_result(name)
                      = <<FALSE, "Nama dompet sudah ada">>
                /\ AddWallet(name) => wallets' = wallets
       /\ NoDuplicateNames']_vars

\* C3 witness: two wallets are registered, and a name typed with a blank
\* around it is refused as the duplicate of one of them.
C3_Witness ==
    /\ Len(wallets) = 2
    /\ \E name \in Names :
          /\ name # Strip(name)
          /\ upsert_wallet_result(name) = <<FALSE, "Nama dompet sudah ada">>

\* C4 (as claimed): a transfer whose source equals its target fails, for any
\* amount, with the same-wallet error and writes nothing to the ledger.
C4_SameWalletAnyAmount ==
    [][\A w \in wallet_keys, a \in Amounts, day \in Days, f \in {0, 1, 2} :
          /\ form_trx_error("transfer", w, w, a)
                = "Dompet asal dan tujuan tidak boleh sama"
          /\ SubmitTransfer(w, w, a, "", day, f) => trx' = trx]_vars

\* C4 (amended): a transfer whose source equals its target writes nothing to
\* the ledger; it fails with the same-wallet error when the amount is
\* positive and with the amount error when the amount is zero.
C4_SameWalletRejected ==
    [][\A w \in wallet_keys, a \in Amounts, day \in Days, f \in {0, 1, 2} :
          /\ form_trx_error("transfer", w, w, a)
                = IF a > 0 THEN "Dompet asal dan tujuan tidak boleh sama"
                  ELSE "Nominal harus lebih besar dari 0"
          /\ SubmitTransfer(w, w, a, "", day, f)
                => /\ trx' = trx
                   /\ next_id' = next_id]_vars

\* C4 witness: a ledger holds transactions and a wallet exists for which a
\* transfer to itself is refused with the same-wallet error.
C4_Witness ==
    /\ DOMAIN trx # {}
    /\ \E w \in wallet_keys, a \in Amounts :
          form_trx_error("transfer", w, w, a)
             = "Dompet asal dan tujuan tidak boleh sama"

\* C5 (as claimed): every persisted transaction has amount > 0.
C5_PositiveAmounts ==
    \A i \in DOMAIN trx : trx[i].amount > 0

\* C6 (as claimed): update on an identifier that is not in the ledger fails
\* with a not-found error and leaves the ledger unchanged; on an identifier
\* that is in the ledger it sets exactly the patched fields of that record.
C6_UpdateContract ==
    \A id \in 1..(next_id - 1), a \in Amounts, ty \in TrxTypes,
       s \in wallet_keys, t \in {NoneId} \cup wallet_keys :
        LET patch == edit_patch(a, "x", ty, s, t)
            after == update_transaction(trx, id, patch)
        IN  IF id \notin DOMAIN trx
            THEN /\ update_transaction_raises(trx, id)
                 /\ after = trx
            ELSE /\ ~update_transaction_raises(trx, id)
                 /\ DOMAIN after = DOMAIN trx
                 /\ \A f \in DOMAIN patch : after[id][f] = patch[f]
                 /\ after[id].created_at = trx[id].created_at

\* A step is "Simpan Perubahan" on transaction id (the patch sets every field
\* but created_at, so the inputs are read off the resulting record).
IsEditOf(id) ==
    /\ id \in DOMAIN trx'
    /\ EditSubmit(id, trx'[id].amount, trx'[id].description, trx'[id].type,
                  trx'[id].source_id, trx'[id].target_id, TRUE)

\* C7: updating or deleting the transaction with identifier id changes only
\* that record: every other record, the counterpart half of a transfer
\* included, and the wallet registry stay as they were.
C7_EditDeleteFrame ==
    [][\A id \in DOMAIN trx :
          \/ /\ wallets' = wallets
             /\ DOMAIN trx' \subseteq DOMAIN trx
             /\ \A j \in DOMAIN trx \ {id} :
                   j \in DOMAIN trx' /\ trx'[j] = trx[j]
          \/ ~(IsEditOf(id) \/ DeleteClick(id, TRUE))]_vars

\* C7 witness: the transfer_out half of a transfer of 30 is as it was written
\* while its transfer_in half was edited to 0 or deleted.
C7_Witness ==
    /\ next_id = 3
    /\ 1 \in DOMAIN trx
    /\ trx[1] = transfer_out_doc(1, 2, 30, "", 1)
    /\ \/ 2 \notin DOMAIN trx
       \/ trx[2] = transfer_in_doc(1, 2, 0, "", 1)

\* The inputs the charts aggregate: the dashboard's expense rows and every
\* filtered frame of Laporan.
AggregatedInputs ==
    UNION {
        {LaporanFilter(df, NoneId, "Pengeluaran")} \cup
        {LaporanFilter(df, w, k) :
            w \in {NoneId} \cup wallet_keys,
            k \in {"Pengeluaran", "Pemasukan", "Semua"}}
        : df \in Frames}

\* C8: daily aggregation yields exactly one (day, total) pair per day present
\* in its input, the total being the sum of the input's amounts on that day,
\* ordered by day ascending; an empty input yields an empty result; and
\* [expense 100 day 1, expense 50 day 1, expense 30 day 2] yields
\* [(day 1, 150), (day 2, 30)].
C8_DailyAggregation ==
    /\ \A x \in AggregatedInputs :
          LET agg == groupby_date_sum(x)
              on(d) == {i \in DOMAIN x : x[i].created_at = d}
          IN  /\ \A d \in Days :
                    Cardinality({n \in DOMAIN agg : agg[n].date_only = d})
                       = IF on(d) = {} THEN 0 ELSE 1
              /\ \A n \in DOMAIN agg :
                    /\ agg[n].date_only \in Days
                    /\ agg[n].amount = SumOver(x, on(agg[n].date_only))
              /\ \A n \in DOMAIN agg, m \in DOMAIN agg :
                    n < m => agg[n].date_only < agg[m].date_only
              /\ DOMAIN x = {} => agg = <<>>
    /\ \A df \in Frames :
          DashboardDaily(df) = groupby_date_sum(LaporanFilter(df, NoneId, "Pengeluaran"))
    /\ (/\ DOMAIN trx = {1, 2, 3}
        /\ trx[1] = expense_doc(1, 100, "", 1)
        /\ trx[2] = expense_doc(1, 50, "", 1)
        /\ trx[3] = expense_doc(1, 30, "", 2))
          => \A df \in Frames :
                DashboardDaily(df) = << [date_only |-> 1, amount |-> 150],
                                        [date_only |-> 2, amount |-> 30] >>

\* C8 witness: the ledger of the scenario, entered with the later day first,
\* and its two-point daily trend.
C8_Witness ==
    /\ DOMAIN trx = {1, 2, 3}
    /\ trx[1] = expense_doc(1, 30, "", 2)
    /\ trx[2] = expense_doc(1, 100, "", 1)
    /\ trx[3] = expense_doc(1, 50, "", 1)
    /\ \A df \in Frames :
          DashboardDaily(df) = << [date_only |-> 1, amount |-> 150],
                                  [date_only |-> 2, amount |-> 30] >>

\* C9: a transfer is two inserts, transfer_out first; when the second insert
\* fails the ledger has gained the transfer_out document alone, and (the
\* ledger being within the load limit) the source wallet is debited by x, no
\* wallet is credited and the total has dropped by x.
C9_NonAtomicTransfer ==
    [][\A a \in wallet_keys, b \in wallet_keys, x \in Amounts, day \in Days :
          (a # b /\ x > 0 /\ SubmitTransfer(a, b, x, "", day, 2)) =>
             /\ trx' = insert_transaction(trx, next_id,
                           transfer_out_doc(a, b, x, "", day))
             /\ next_id' = next_id + 1
             /\ Cardinality(DOMAIN trx') <= LoadLimit =>
                   \A r \in BOOLEAN :
                      /\ Balance(r, a)' = Balance(r, a) - x
                      /\ \A w \in wallet_keys \ {a} :
                            Balance(r, w)' = Balance(r, w)
                      /\ Total(r)' = Total(r) - x]_vars

\* C9 witness: the only document ever inserted is a transfer_out of 30 from
\* wallet 1 to wallet 2; wallet 1 stands at -30, wallet 2 at 0, the total at
\* -30.
C9_Witness ==
    /\ next_id = 2
    /\ DOMAIN trx = {1}
    /\ trx[1] = transfer_out_doc(1, 2, 30, "", 1)
    /\ \A r \in BOOLEAN :
          /\ Balance(r, 1) = -30
          /\ Balance(r, 2) = 0
          /\ Total(r) = -30

\* C10: every transaction's source_id is the identifier of an existing wallet
\* and its target_id is null or the identifier of an existing wallet, so no
\* loaded transaction is left out of the per-wallet balances for want of its
\* source wallet.
C10_ReferentialIntegrity ==
    /\ \A i \in DOMAIN trx :
          /\ trx[i].source_id \in wallet_keys
          /\ trx[i].target_id \in {NoneId} \cup wallet_keys
    /\ \A df \in Frames : \A i \in DOMAIN df :
          df[i].source_id \in DOMAIN load_wallets

\* C10 witness: with two wallets registered, a transaction was edited to be
\* an expense of the second wallet with the first as its target.
C10_Witness ==
    /\ Len(wallets) = 2
    /\ \E i \in DOMAIN trx :
          /\ trx[i].type = "expense"
          /\ trx[i].source_id = 2
          /\ trx[i].target_id = 1

====
